---- MODULE Spec2Model ----
(***************************************************************************)
(* Blender "OSC Camera Sync" addon: the sync registry and dispatcher       *)
(* (CameraOscSyncer), the operator that toggles sync (OSC_OT_camera_sync)  *)
(* and the addon's register/unregister, over a small Blender scene.        *)
(*                                                                         *)
(* Numbers are fixed point: lens angles are in 1e-4 rad, field of view in  *)
(* 1e-2 degree, clip distances in 1e-1 scene units, coordinates and the    *)
(* look distance in whole scene units.                                     *)
(***************************************************************************)
EXTENDS Integers, Sequences, FiniteSets, TLC

VARIABLES
    OSC_OK,                 \* operators.py: the pythonosc import succeeded
    objects,                \* bpy.data.objects: name -> object, or NoObj
    cameras,                \* bpy.data.cameras: camera data -> lens and settings.active
    targets,                \* CameraOscSyncer.targets: name -> CameraOscTarget
    _handler_registered,    \* CameraOscSyncer._handler_registered
    depsgraph_update_post,  \* bpy.app.handlers.depsgraph_update_post (a list)
    sent,                   \* the transport calls made by the last operation, in order
    cycles,                 \* the targets the last operation ran _send_camera_data for, in order
    last,                   \* the last operation: what was called and how it ended
    conv                    \* a chain of coordinate conversions: the vector it began
                            \* with, the vector it has reached, the conversions made

vars == <<OSC_OK, objects, cameras, targets,
          _handler_registered, depsgraph_update_post, sent, cycles, last, conv>>

----------------------------------------------------------------------------
(* Bounds of the model and the small sets inputs are drawn from.           *)

\* the most changes one depsgraph update carries
MaxUpdates == 2

\* bpy.data.objects keeps its objects sorted by name: this is that order
ObjectNames == <<"Cam1", "Obj2">>

Names == {ObjectNames[i] : i \in 1..Len(ObjectNames)}

\* camera data blocks (bpy.types.Camera); they exist throughout
Cams == {"Camera", "Camera.001"}

None == "None"

NoObj == [type |-> "NONE", data |-> None, pose |-> None]

Vec(x, y, z) == <<x, y, z>>

\* the transforms an object is given: its own location, the translation its
\* parent adds to it, and matrix_world.to_quaternion() @ Vector((0, 0, -1)):
\* an unparented camera of identity orientation, and a parented one turned a
\* quarter about X so that it looks along +Y
Poses ==
    { [location |-> Vec(1, 2, 3), parent_offset |-> Vec(0, 0, 0), forward |-> Vec(0, 0, -1)],
      [location |-> Vec(4, 5, 6), parent_offset |-> Vec(0, 0, 7), forward |-> Vec(0, 1, 0)] }

Mesh == [type |-> "MESH", data |-> None, pose |-> None]

CameraObject(data, pose) == [type |-> "CAMERA", data |-> data, pose |-> pose]

\* the lens angle of each camera data block, in 1e-4 rad: 50 and 90 degrees
LensAngle(c) == IF c = "Camera" THEN 8727 ELSE 15708

\* properties.py defaults: port 9000; clip distances in 1e-1 units are Blender's
\* camera defaults, clip_start 0.1 and clip_end 100.0
DefaultPort == 9000

ClipStart == 1

ClipEnd == 1000

\* what the user has typed into the panel when the operator runs: the
\* defaults, a second receiver, and a host no UDP client can be made for
Settings ==
    { [host |-> "127.0.0.1", port |-> DefaultPort, address_prefix |-> <<"/", "camera">>,
       look_distance |-> 1, send_bundled |-> TRUE],
      [host |-> "10.0.0.2", port |-> DefaultPort + 1,
       address_prefix |-> <<"/", "cam", "/", "/">>,
       look_distance |-> 2, send_bundled |-> FALSE],
      [host |-> "no such host", port |-> DefaultPort, address_prefix |-> <<"/", "camera">>,
       look_distance |-> 1, send_bundled |-> TRUE] }

ValidHosts == {"127.0.0.1", "10.0.0.2"}

\* how the network fails during one operation: transport call number `at`
\* fails (0: none does), and with once = FALSE every later call fails too
FailPlans ==
    { [at |-> 0, once |-> TRUE], [at |-> 1, once |-> TRUE], [at |-> 3, once |-> TRUE] }

Fails(plan, i) == plan.at > 0 /\ (i = plan.at \/ (~plan.once /\ i > plan.at))

----------------------------------------------------------------------------
(* Coordinate conversion and the camera snapshot.                          *)

\* the conversion with the axes swapped and no sign changed
blender_to_ossia_coords_swap(vec) == <<vec[1], vec[3], vec[2]>>

blender_to_ossia_coords(vec) == <<vec[1], vec[3], -vec[2]>>

VecAdd(a, b) == <<a[1] + b[1], a[2] + b[2], a[3] + b[3]>>

VecScale(a, k) == <<a[1] * k, a[2] * k, a[3] * k>>

\* math.degrees on a 1e-4 rad angle, rounded to 1e-2 degree
PiE4 == 31416

degrees(angle) == (angle * 18000 + PiE4 \div 2) \div PiE4

\* the tuple _send_camera_data compares and sends
current_data(obj, cam_data, look_distance) ==
    LET ossia_pos    == blender_to_ossia_coords(obj.pose.location)
        ossia_center == blender_to_ossia_coords(
                            VecAdd(obj.pose.location,
                                   VecScale(obj.pose.forward, look_distance)))
    IN  <<ossia_pos, ossia_center, degrees(cam_data.angle),
          cam_data.clip_start, cam_data.clip_end>>

----------------------------------------------------------------------------
(* CameraOscTarget and the transport.                                      *)

\* target.last_data before the first send (Python's None)
NoData == <<>>

RECURSIVE rstrip(_)
\* str.rstrip('/') on a sequence of path tokens
rstrip(prefix) ==
    IF prefix # <<>> /\ prefix[Len(prefix)] = "/"
    THEN rstrip(SubSeq(prefix, 1, Len(prefix) - 1))
    ELSE prefix

CameraOscTarget(object_name, client, address_prefix, look_distance, send_bundled) ==
    [object_name    |-> object_name,
     client         |-> client,
     address_prefix |-> rstrip(address_prefix),
     look_distance  |-> look_distance,
     send_bundled   |-> send_bundled,
     last_data      |-> NoData]

\* udp_client.SimpleUDPClient(host, port); made only for a host that resolves
SimpleUDPClient(host, port) == [host |-> host, port |-> port]

\* the five address/value pairs with center built before position
Messages_center_first(prefix, data) ==
    << [address |-> prefix \o <<"/", "center">>,   args |-> data[2]],
       [address |-> prefix \o <<"/", "position">>, args |-> data[1]],
       [address |-> prefix \o <<"/", "fov">>,      args |-> <<data[3]>>],
       [address |-> prefix \o <<"/", "near">>,     args |-> <<data[4]>>],
       [address |-> prefix \o <<"/", "far">>,      args |-> <<data[5]>>] >>

\* the five address/value pairs of one snapshot, in the order they are built
Messages(prefix, data) ==
    << [address |-> prefix \o <<"/", "position">>, args |-> data[1]],
       [address |-> prefix \o <<"/", "center">>,   args |-> data[2]],
       [address |-> prefix \o <<"/", "fov">>,      args |-> <<data[3]>>],
       [address |-> prefix \o <<"/", "near">>,     args |-> <<data[4]>>],
       [address |-> prefix \o <<"/", "far">>,      args |-> <<data[5]>>] >>

\* one call of the transport: client.send(bundle) or client.send_message(address, value)
TransportCall(target, method, content, ok) ==
    [object_name |-> target.object_name,
     client      |-> target.client,
     method      |-> method,
     content     |-> content,
     ok          |-> ok]

\* the transport calls of one transmission, given that `base` calls were made
\* before it in this operation; a call that fails raises, which ends the transmission
Transmit(target, data, base, plan) ==
    LET msgs == Messages(target.address_prefix, data)
    IN  IF target.send_bundled
        THEN << TransportCall(target, "send", msgs, ~Fails(plan, base + 1)) >>
        ELSE LET failing == {i \in 1..5 : Fails(plan, base + i)}
                 n == IF failing = {} THEN 5
                      ELSE CHOOSE i \in failing : \A j \in failing : i <= j
             IN  [i \in 1..n |->
                    TransportCall(target, "send_message", <<msgs[i]>>,
                                  ~Fails(plan, base + i))]

----------------------------------------------------------------------------
(* CameraOscSyncer. Its methods act on a record s of the class's state     *)
(* (targets, _handler_registered), Blender's handler list, and the         *)
(* transport calls and _send_camera_data calls made so far; they read the  *)
(* scene and change none of it.                                            *)

Syncer == [targets               |-> targets,
           _handler_registered   |-> _handler_registered,
           depsgraph_update_post |-> depsgraph_update_post,
           sent                  |-> <<>>,
           cycles                |-> <<>>]

Callback == "CameraOscSyncer._depsgraph_callback"

\* list.remove(x): drops the first occurrence
RemoveFirst(list, x) ==
    LET i == CHOOSE k \in 1..Len(list) :
                 list[k] = x /\ \A j \in 1..(k - 1) : list[j] # x
    IN  SubSeq(list, 1, i - 1) \o SubSeq(list, i + 1, Len(list))

\* _send_camera_data without the comparison to target.last_data
_send_camera_data_always(s, name, plan) ==
    LET target == s.targets[name]
        obj    == objects[target.object_name]
        s1     == [s EXCEPT !.cycles = Append(@, name)]
    IN  IF obj.type # "CAMERA"
        THEN s1
        ELSE LET data == current_data(obj, cameras[obj.data], target.look_distance)
             IN  [s1 EXCEPT
                    !.targets[name].last_data = data,
                    !.sent = @ \o Transmit(target, data, Len(s.sent), plan)]

\* _send_camera_data that forgets a target whose object is gone
_send_camera_data_drops_stale(s, name, plan) ==
    LET target == s.targets[name]
        obj    == objects[target.object_name]
        s1     == [s EXCEPT !.cycles = Append(@, name)]
    IN  IF obj.type # "CAMERA"
        THEN [s1 EXCEPT !.targets = [n \in DOMAIN s.targets \ {name} |-> s.targets[n]]]
        ELSE LET data == current_data(obj, cameras[obj.data], target.look_distance)
             IN  IF target.last_data = data
                 THEN s1
                 ELSE [s1 EXCEPT
                         !.targets[name].last_data = data,
                         !.sent = @ \o Transmit(target, data, Len(s.sent), plan)]

\* _send_camera_data without the assignment to target.last_data
_send_camera_data_keeps_cache(s, name, plan) ==
    LET target == s.targets[name]
        obj    == objects[target.object_name]
        s1     == [s EXCEPT !.cycles = Append(@, name)]
    IN  IF obj.type # "CAMERA"
        THEN s1
        ELSE LET data == current_data(obj, cameras[obj.data], target.look_distance)
             IN  IF target.last_data = data
                 THEN s1
                 ELSE [s1 EXCEPT
                         !.sent = @ \o Transmit(target, data, Len(s.sent), plan)]

\* the target is the one the registry holds under `name`: the callers pass
\* targets[obj_name], or the target add_target has just stored
_send_camera_data(s, name, plan) ==
    LET target == s.targets[name]
        obj    == objects[target.object_name]
        s1     == [s EXCEPT !.cycles = Append(@, name)]
    IN  IF obj.type # "CAMERA"
        THEN s1
        ELSE LET data == current_data(obj, cameras[obj.data], target.look_distance)
             IN  IF target.last_data = data
                 THEN s1
                 ELSE [s1 EXCEPT
                         !.targets[name].last_data = data,
                         !.sent = @ \o Transmit(target, data, Len(s.sent), plan)]

\* _ensure_handler without the test of _handler_registered
_ensure_handler_always(s) ==
    [s EXCEPT !.depsgraph_update_post = Append(@, Callback),
              !._handler_registered = TRUE]

_ensure_handler(s) ==
    IF ~s._handler_registered
    THEN [s EXCEPT !.depsgraph_update_post = Append(@, Callback),
                   !._handler_registered = TRUE]
    ELSE s

_remove_handler(s) ==
    IF s._handler_registered
    THEN [s EXCEPT !.depsgraph_update_post =
                       IF \E k \in 1..Len(@) : @[k] = Callback
                       THEN RemoveFirst(@, Callback) ELSE @,
                   !._handler_registered = FALSE]
    ELSE s

\* add_target that keeps last_data of the target it replaces
add_target_keeps_cache(s, target, plan) ==
    LET name == target.object_name
        kept == IF name \in DOMAIN s.targets
                THEN [target EXCEPT !.last_data = s.targets[name].last_data]
                ELSE target
        s1 == [s EXCEPT !.targets =
                   [n \in DOMAIN s.targets \cup {name} |->
                       IF n = name THEN kept ELSE s.targets[n]]]
    IN  _send_camera_data(_ensure_handler(s1), name, plan)

\* add_target as dict.setdefault: a target already registered stays
add_target_keeps_first(s, target, plan) ==
    LET name == target.object_name
        s1 == [s EXCEPT !.targets =
                   [n \in DOMAIN s.targets \cup {name} |->
                       IF n \in DOMAIN s.targets THEN s.targets[n] ELSE target]]
    IN  _send_camera_data(_ensure_handler(s1), name, plan)

add_target(s, target, plan) ==
    LET name == target.object_name
        s1 == [s EXCEPT !.targets =
                   [n \in DOMAIN s.targets \cup {name} |->
                       IF n = name THEN target ELSE s.targets[n]]]
    IN  _send_camera_data(_ensure_handler(s1), name, plan)

\* remove_target that forgets the "del": it only looks after the handler
remove_target_keeps_target(s, object_name) ==
    IF DOMAIN s.targets = {} THEN _remove_handler(s) ELSE s

\* remove_target that drops the handler whenever the name is not registered
remove_target_unsubscribes(s, object_name) ==
    IF object_name \in DOMAIN s.targets
    THEN LET s1 == [s EXCEPT !.targets =
                       [n \in DOMAIN s.targets \ {object_name} |-> s.targets[n]]]
         IN  IF DOMAIN s1.targets = {} THEN _remove_handler(s1) ELSE s1
    ELSE _remove_handler(s)

\* remove_target without its "if not cls.targets" step
remove_target_keeps_handler(s, object_name) ==
    IF object_name \in DOMAIN s.targets
    THEN [s EXCEPT !.targets =
             [n \in DOMAIN s.targets \ {object_name} |-> s.targets[n]]]
    ELSE s

\* remove_target that empties the registry
remove_target_clears(s, object_name) ==
    _remove_handler([s EXCEPT !.targets = <<>>])

remove_target(s, object_name) ==
    LET s1 == IF object_name \in DOMAIN s.targets
              THEN [s EXCEPT !.targets =
                       [n \in DOMAIN s.targets \ {object_name} |-> s.targets[n]]]
              ELSE s
    IN  IF DOMAIN s1.targets = {} THEN _remove_handler(s1) ELSE s1

Exists(n) == objects[n].type # "NONE"

\* the changes a depsgraph update can carry: an object of the scene, the
\* camera data of one of its camera objects (the depsgraph holds only data
\* that is in use), or a data block of another kind (a mesh, a material)
Updates ==
    [kind : {"Object"}, id : {n \in Names : Exists(n)}]
        \cup [kind : {"Camera"},
              id : {objects[n].data : n \in {m \in Names : objects[m].type = "CAMERA"}}]
        \cup [kind : {"Other"}, id : {None}]

\* obj_name without the test of update.id.type
obj_name_any_object(update) ==
    IF update.kind = "Object"
    THEN update.id
    ELSE IF update.kind = "Camera"
    THEN LET users == {i \in 1..Len(ObjectNames) :
                          /\ objects[ObjectNames[i]].type = "CAMERA"
                          /\ objects[ObjectNames[i]].data = update.id}
         IN  IF users = {} THEN None
             ELSE ObjectNames[CHOOSE i \in users : \A j \in users : i <= j]
    ELSE None

\* the name the callback resolves one change to, or None
obj_name(update) ==
    IF update.kind = "Object"
    THEN IF objects[update.id].type = "CAMERA" THEN update.id ELSE None
    ELSE IF update.kind = "Camera"
    THEN LET users == {i \in 1..Len(ObjectNames) :
                          /\ objects[ObjectNames[i]].type = "CAMERA"
                          /\ objects[ObjectNames[i]].data = update.id}
         IN  IF users = {} THEN None
             ELSE ObjectNames[CHOOSE i \in users : \A j \in users : i <= j]
    ELSE None

RECURSIVE for_update_raises(_, _, _)
RECURSIVE for_update(_, _, _)
\* the loop over depsgraph.updates, were an exception of the transport to
\* leave _send_camera_data and end the callback
for_update_raises(s, updates, plan) ==
    IF updates = <<>> THEN s
    ELSE LET name == obj_name(Head(updates))
             s1 == IF name # None /\ name \in DOMAIN s.targets
                   THEN _send_camera_data(s, name, plan)
                   ELSE s
         IN  IF \E i \in 1..Len(s1.sent) : ~s1.sent[i].ok
             THEN s1
             ELSE for_update_raises(s1, Tail(updates), plan)

\* the loop over depsgraph.updates
for_update(s, updates, plan) ==
    IF updates = <<>> THEN s
    ELSE LET name == obj_name(Head(updates))
             s1 == IF name # None /\ name \in DOMAIN s.targets
                   THEN _send_camera_data(s, name, plan)
                   ELSE s
         IN  for_update(s1, Tail(updates), plan)

_depsgraph_callback(s, updates, plan) ==
    IF DOMAIN s.targets = {} THEN s ELSE for_update(s, updates, plan)

----------------------------------------------------------------------------
(* The operations. Each leaves in `sent` the transport calls it made and   *)
(* in `last` what was called, for which object, and how it ended.          *)
(* The addon's other inputs - the panel's settings apart from the active   *)
(* flag - are read only by execute, so they are drawn when it runs.        *)

NoSettings == [host |-> None, port |-> 0, address_prefix |-> <<>>,
               look_distance |-> 0, send_bundled |-> FALSE]

\* what self.report was given and what execute returned, for each way it ends
Report(outcome) ==
    IF outcome \in {"no_osc", "no_camera", "client_error"} THEN "ERROR"
    ELSE IF outcome \in {"stopped", "started"} THEN "INFO"
    ELSE None

Result(outcome) ==
    IF outcome \in {"no_osc", "no_camera", "client_error"} THEN "CANCELLED"
    ELSE IF outcome \in {"stopped", "started"} THEN "FINISHED"
    ELSE None

\* had_target: the registry held a target under `name` when the operation began
Did(op, name, outcome, settings) ==
    [op |-> op, name |-> name, outcome |-> outcome, settings |-> settings,
     report |-> Report(outcome), result |-> Result(outcome),
     had_target |-> name \in DOMAIN targets]

\* the syncer's state after a method left it as s; the addon's operations
\* leave no conversion chain behind
Commit(s) ==
    /\ targets' = s.targets
    /\ _handler_registered' = s._handler_registered
    /\ depsgraph_update_post' = s.depsgraph_update_post
    /\ sent' = s.sent
    /\ cycles' = s.cycles
    /\ UNCHANGED conv

\* execute that sets settings.active before it makes the client
execute_flag_first(active_object, settings, plan) ==
    IF ~OSC_OK
    THEN /\ last' = Did("execute", active_object, "no_osc", NoSettings)
         /\ Commit(Syncer)
         /\ UNCHANGED <<OSC_OK, objects, cameras>>
    ELSE IF active_object = None \/ objects[active_object].type # "CAMERA"
    THEN /\ last' = Did("execute", active_object, "no_camera", NoSettings)
         /\ Commit(Syncer)
         /\ UNCHANGED <<OSC_OK, objects, cameras>>
    ELSE LET camera == objects[active_object].data
         IN  IF cameras[camera].active
             THEN /\ cameras' = [cameras EXCEPT ![camera].active = FALSE]
                  /\ Commit(remove_target(Syncer, active_object))
                  /\ last' = Did("execute", active_object, "stopped", NoSettings)
                  /\ UNCHANGED <<OSC_OK, objects>>
             ELSE IF settings.host \notin ValidHosts
             THEN /\ last' = Did("execute", active_object, "client_error", settings)
                  /\ cameras' = [cameras EXCEPT ![camera].active = TRUE]
                  /\ Commit(Syncer)
                  /\ UNCHANGED <<OSC_OK, objects>>
             ELSE LET client == SimpleUDPClient(settings.host, settings.port)
                      target == CameraOscTarget(active_object, client,
                                                settings.address_prefix,
                                                settings.look_distance,
                                                settings.send_bundled)
                  IN  /\ Commit(add_target(Syncer, target, plan))
                      /\ cameras' = [cameras EXCEPT ![camera].active = TRUE]
                      /\ last' = Did("execute", active_object, "started", settings)
                      /\ UNCHANGED <<OSC_OK, objects>>

\* OSC_OT_camera_sync.execute with context.active_object and the camera's settings
execute(active_object, settings, plan) ==
    IF ~OSC_OK
    THEN /\ last' = Did("execute", active_object, "no_osc", NoSettings)
         /\ Commit(Syncer)
         /\ UNCHANGED <<OSC_OK, objects, cameras>>
    ELSE IF active_object = None \/ objects[active_object].type # "CAMERA"
    THEN /\ last' = Did("execute", active_object, "no_camera", NoSettings)
         /\ Commit(Syncer)
         /\ UNCHANGED <<OSC_OK, objects, cameras>>
    ELSE LET camera == objects[active_object].data
         IN  IF cameras[camera].active
             THEN /\ cameras' = [cameras EXCEPT ![camera].active = FALSE]
                  /\ Commit(remove_target(Syncer, active_object))
                  /\ last' = Did("execute", active_object, "stopped", NoSettings)
                  /\ UNCHANGED <<OSC_OK, objects>>
             ELSE IF settings.host \notin ValidHosts
             THEN /\ last' = Did("execute", active_object, "client_error", settings)
                  /\ Commit(Syncer)
                  /\ UNCHANGED <<OSC_OK, objects, cameras>>
             ELSE LET client == SimpleUDPClient(settings.host, settings.port)
                      target == CameraOscTarget(active_object, client,
                                                settings.address_prefix,
                                                settings.look_distance,
                                                settings.send_bundled)
                  IN  /\ Commit(add_target(Syncer, target, plan))
                      /\ cameras' = [cameras EXCEPT ![camera].active = TRUE]
                      /\ last' = Did("execute", active_object, "started", settings)
                      /\ UNCHANGED <<OSC_OK, objects>>

NoFailure == [at |-> 0, once |-> TRUE]

\* execute reads the settings and calls the transport only on its way to a
\* start, so they and the network's behaviour are drawn only then
Starts(active_object) ==
    /\ OSC_OK
    /\ active_object # None
    /\ objects[active_object].type = "CAMERA"
    /\ ~cameras[objects[active_object].data].active

Execute ==
    \E active_object \in {n \in Names : Exists(n)} \cup {None} :
        IF Starts(active_object)
        THEN \E settings \in Settings, plan \in FailPlans :
                 execute(active_object, settings, plan)
        ELSE execute(active_object, NoSettings, NoFailure)

RECURSIVE run_handlers(_, _, _, _)
\* Blender calls every entry of depsgraph_update_post after a depsgraph update
run_handlers(s, handlers, updates, plan) ==
    IF handlers = <<>> THEN s
    ELSE run_handlers(_depsgraph_callback(s, updates, plan), Tail(handlers), updates, plan)

\* The callback uses a change only through the name it resolves it to, so
\* two changes that resolve alike lead to the same state: one change is
\* drawn for each name that some change resolves to (None among them).
Changes ==
    {CHOOSE u \in Updates : obj_name(u) = r : r \in {obj_name(u) : u \in Updates}}

\* A change that resolves to None does nothing in the loop, so an event
\* leads to the same state with it as without it: the events drawn are the
\* lists of changes that resolve to a name, and the event of one change
\* that resolves to none.
UpdateLists ==
    UNION {[1..k -> {u \in Changes : obj_name(u) # None}] : k \in 1..MaxUpdates}
        \cup {<<u>> : u \in {c \in Changes : obj_name(c) = None}}

\* some target's cache differs from its live camera's snapshot: only then
\* can a cycle call the transport
SomethingToSend ==
    \E n \in DOMAIN targets :
        /\ objects[n].type = "CAMERA"
        /\ targets[n].last_data #
              current_data(objects[n], cameras[objects[n].data], targets[n].look_distance)

\* a depsgraph update, when the handler list has an entry to call; the
\* network's behaviour is drawn when there is something to send
DepsgraphUpdate ==
    /\ depsgraph_update_post # <<>>
    /\ \E updates \in UpdateLists,
          plan \in IF SomethingToSend THEN FailPlans ELSE {NoFailure} :
        /\ Commit(run_handlers(Syncer, depsgraph_update_post, updates, plan))
        /\ last' = Did("depsgraph_update", None, "done", NoSettings)
        /\ UNCHANGED <<OSC_OK, objects, cameras>>

RECURSIVE remove_all(_, _)
\* unregister's loop over list(CameraOscSyncer.targets.keys())
remove_all(s, names) ==
    IF names = {} THEN s
    ELSE LET name == CHOOSE n \in names : TRUE
         IN  remove_all(remove_target(s, name), names \ {name})

\* operators.unregister(); Blender then forgets the operator class until the
\* addon is enabled again, which changes nothing modelled here
Unregister ==
    /\ Commit(remove_all(Syncer, DOMAIN targets))
    /\ last' = Did("unregister", None, "done", NoSettings)
    /\ UNCHANGED <<OSC_OK, objects, cameras>>

----------------------------------------------------------------------------
(* What the user does to the scene between the addon's operations.         *)

SceneStep(op, name) ==
    /\ last' = Did("scene", None, "done", NoSettings)
    /\ Commit(Syncer)
    /\ UNCHANGED OSC_OK

\* a camera or a mesh is added under a free name
AddObject ==
    \E n \in Names, obj \in {Mesh} \cup {CameraObject(c, p) : c \in Cams, p \in Poses} :
        /\ ~Exists(n)
        /\ objects' = [objects EXCEPT ![n] = obj]
        /\ UNCHANGED cameras
        /\ SceneStep("add_object", n)

DeleteObject ==
    \E n \in Names :
        /\ Exists(n)
        /\ objects' = [objects EXCEPT ![n] = NoObj]
        /\ UNCHANGED cameras
        /\ SceneStep("delete_object", n)

\* obj.name = m, for a name no object has
RenameObject ==
    \E n \in Names, m \in Names :
        /\ Exists(n) /\ ~Exists(m)
        /\ objects' = [objects EXCEPT ![m] = objects[n], ![n] = NoObj]
        /\ UNCHANGED cameras
        /\ SceneStep("rename_object", m)

\* the camera is moved, turned or parented
TransformObject ==
    \E n \in Names, p \in Poses :
        /\ objects[n].type = "CAMERA" /\ objects[n].pose # p
        /\ objects' = [objects EXCEPT ![n].pose = p]
        /\ UNCHANGED cameras
        /\ SceneStep("transform_object", n)

\* obj.data = c: the camera object is given (or shares) another camera data block
SetObjectData ==
    \E n \in Names, c \in Cams :
        /\ objects[n].type = "CAMERA" /\ objects[n].data # c
        /\ objects' = [objects EXCEPT ![n].data = c]
        /\ UNCHANGED cameras
        /\ SceneStep("set_object_data", n)

----------------------------------------------------------------------------

\* after register(): nothing is synced, no camera is active; the scene holds
\* the default camera, and the two camera data blocks have different lenses
NoConv == [from |-> Vec(0, 0, 0), to |-> Vec(0, 0, 0), n |-> 0]

InitAddon ==
    /\ OSC_OK \in BOOLEAN
    /\ objects = [n \in Names |->
                    IF n = ObjectNames[1]
                    THEN CameraObject("Camera", CHOOSE p \in Poses : p.location = Vec(1, 2, 3))
                    ELSE NoObj]
    /\ cameras = [c \in Cams |->
                    [active |-> FALSE, angle |-> LensAngle(c),
                     clip_start |-> ClipStart, clip_end |-> ClipEnd]]
    /\ targets = <<>>
    /\ _handler_registered = FALSE
    /\ depsgraph_update_post = <<>>
    /\ sent = <<>>
    /\ cycles = <<>>
    /\ last = Did("register", None, "done", NoSettings)

Init == InitAddon /\ conv = NoConv

Next ==
    \/ Execute
    \/ DepsgraphUpdate
    \/ Unregister
    \/ AddObject
    \/ DeleteObject
    \/ RenameObject
    \/ TransformObject
    \/ SetObjectData

Spec == Init /\ [][Next]_vars

----------------------------------------------------------------------------
(* blender_to_ossia_coords on its own: a vector is drawn from a cube of    *)
(* integer coordinates and converted again and again.                      *)

\* the largest coordinate drawn, and the longest chain of conversions
MaxCoord == 2

MaxConversions == 5

Vectors == {Vec(x, y, z) : x \in -MaxCoord..MaxCoord, y \in -MaxCoord..MaxCoord,
                           z \in -MaxCoord..MaxCoord}

InitConv ==
    /\ InitAddon
    /\ \E v \in Vectors : conv = [from |-> v, to |-> v, n |-> 0]

Convert ==
    /\ conv.n < MaxConversions
    /\ conv' = [conv EXCEPT !.to = blender_to_ossia_coords(@), !.n = @ + 1]
    /\ UNCHANGED <<OSC_OK, objects, cameras, targets, _handler_registered,
                   depsgraph_update_post, sent, cycles, last>>

NextConv == Convert

SpecConv == InitConv /\ [][NextConv]_vars

----------------------------------------------------------------------------
(* What the claims speak of.                                               *)

Registered(n) == n \in DOMAIN targets

Subscribed == \E k \in 1..Len(depsgraph_update_post) : depsgraph_update_post[k] = Callback

IsLiveCamera(objs, n) == objs[n].type = "CAMERA"

\* the snapshot of the live camera n as a target `t` sees it
Snapshot(objs, cams, t) ==
    current_data(objs[t.object_name], cams[objs[t.object_name].data], t.look_distance)

Last(seq) == seq[Len(seq)]

\* a transport call that begins a transmission: the bundle, or the first of
\* the five messages
BeginsTransmission(call) ==
    \/ call.method = "send"
    \/ call.method = "send_message" /\ Last(call.content[1].address) = "position"

\* the transmissions of an operation's transport calls `calls` for object n
Transmissions(calls, n) ==
    Cardinality({i \in 1..Len(calls) :
                    calls[i].object_name = n /\ BeginsTransmission(calls[i])})

CyclesFor(cs, n) == Cardinality({i \in 1..Len(cs) : cs[i] = n})

SomeCallFailed(calls) == \E i \in 1..Len(calls) : ~calls[i].ok

----------------------------------------------------------------------------
(* C1: after every operation - start, stop, a failed start, a scene-change *)
(* callback, a failing transmission, teardown - the dispatcher's callback  *)
(* is subscribed (it is in Blender's handler list, and the class's flag    *)
(* says so) if and only if the registry of targets is non-empty.           *)
C1_SubscriptionIffRegistry ==
    /\ Subscribed <=> DOMAIN targets # {}
    /\ _handler_registered <=> DOMAIN targets # {}

\* a transmission has just failed inside the callback; the target is still
\* registered and the subscription is still there
C1_Witness ==
    /\ last.op = "depsgraph_update"
    /\ SomeCallFailed(sent)
    /\ DOMAIN targets # {}
    /\ Subscribed /\ _handler_registered

\* teardown has emptied a registry and dropped the subscription
C1_WitnessTeardown ==
    /\ last.op = "unregister"
    /\ DOMAIN targets = {}
    /\ ~Subscribed /\ ~_handler_registered
    /\ \E c \in Cams : cameras[c].active

----------------------------------------------------------------------------
(* C2: duplicate suppression. For a registered target on a live camera:    *)
(* no operation transmits more than once for it, however many of the       *)
(* event's changes trigger a cycle; a start transmits exactly once and a   *)
(* cycle that finds the cache different from the snapshot transmits        *)
(* exactly once; every cycle leaves the cache equal to the snapshot; and   *)
(* while the cache equals the snapshot, an event transmits nothing for     *)
(* the target and leaves it as it is. So consecutive cycles on an          *)
(* unchanged snapshot transmit once in total, in the first of them.        *)
C2_Step ==
    \A n \in Names :
        LET sends == Transmissions(sent', n)
            ran   == CyclesFor(cycles', n) > 0
        IN  /\ sends <= 1
            /\ (last'.outcome = "started" /\ last'.name = n) => sends = 1
            /\ (ran /\ n \in DOMAIN targets' /\ IsLiveCamera(objects', n))
                  => targets'[n].last_data = Snapshot(objects', cameras', targets'[n])
            /\ (/\ last'.op = "depsgraph_update"
                /\ n \in DOMAIN targets /\ IsLiveCamera(objects, n))
                  => IF targets[n].last_data = Snapshot(objects, cameras, targets[n])
                     THEN sends = 0 /\ targets'[n] = targets[n]
                     ELSE ran => sends = 1

C2_DuplicateSuppression == [][C2_Step]_vars

\* one event carried several changes for the same target, the callback ran a
\* cycle for each, and one transmission was made
C2_Witness ==
    /\ last.op = "depsgraph_update"
    /\ \E n \in DOMAIN targets :
          /\ IsLiveCamera(objects, n)
          /\ CyclesFor(cycles, n) >= 2
          /\ Transmissions(sent, n) = 1

\* an event ran a cycle for a target whose snapshot was already sent: nothing
\* was transmitted
C2_WitnessLaterEvent ==
    /\ last.op = "depsgraph_update"
    /\ \E n \in DOMAIN targets :
          /\ IsLiveCamera(objects, n)
          /\ CyclesFor(cycles, n) >= 1
          /\ Transmissions(sent, n) = 0

----------------------------------------------------------------------------
(* C3: the next triggering change after a failed transmission attempts     *)
(* transmission again. If the last operation's transmission for a target   *)
(* failed and the next operation is an event that runs a cycle for that    *)
(* target, still registered and still a live camera, then that event       *)
(* calls the transport for it - also when the snapshot is the same.        *)
FailedFor(calls, n) ==
    \E i \in 1..Len(calls) : calls[i].object_name = n /\ ~calls[i].ok

C3_Step ==
    \A n \in Names :
        (/\ n \in DOMAIN targets /\ FailedFor(sent, n)
         /\ last'.op = "depsgraph_update"
         /\ n \in DOMAIN targets' /\ IsLiveCamera(objects', n)
         /\ CyclesFor(cycles', n) > 0)
            => Transmissions(sent', n) >= 1

C3_RetryAfterFailure == [][C3_Step]_vars

----------------------------------------------------------------------------
(* C4: every change of an event that refers to a tracked camera object, or *)
(* to camera data that a tracked camera object uses, makes the callback    *)
(* run one cycle for that target - whichever objects share the data. In    *)
(* every state, for each single change the callback could be given.        *)
RefersTo(update, n) ==
    /\ objects[n].type = "CAMERA"
    /\ \/ update.kind = "Object" /\ update.id = n
       \/ update.kind = "Camera" /\ objects[n].data = update.id

C4_EveryTrackedOwnerTriggered ==
    \A update \in Updates, n \in DOMAIN targets :
        RefersTo(update, n)
            => CyclesFor(_depsgraph_callback(Syncer, <<update>>, NoFailure).cycles, n) = 1

----------------------------------------------------------------------------
(* C5: settings.active of a camera is true if and only if the registry     *)
(* holds a target for the object that carries that camera.                 *)
C5_ActiveIffRegistered ==
    \A n \in Names :
        objects[n].type = "CAMERA"
            => (cameras[objects[n].data].active <=> n \in DOMAIN targets)

----------------------------------------------------------------------------
(* C6: a start on an existing camera registers the target and at once runs *)
(* one cycle that makes exactly one transmission attempt, whatever was     *)
(* sent before: the transmission carries the camera's snapshot, to the     *)
(* new target's client, and the cache is that snapshot afterwards. This    *)
(* holds for a first start, for one that replaces a target, and for one    *)
(* that follows a stop with the camera unmoved.                            *)
TransmittedData(calls) ==
    IF calls[1].method = "send"
    THEN <<calls[1].content[1].args, calls[1].content[2].args,
           calls[1].content[3].args[1], calls[1].content[4].args[1],
           calls[1].content[5].args[1]>>
    ELSE <<calls[1].content[1].args>>

C6_Started(n) ==
    /\ n \in DOMAIN targets'
    /\ cycles' = <<n>>
    /\ Transmissions(sent', n) = 1
    /\ \A i \in 1..Len(sent') :
          sent'[i].object_name = n /\ sent'[i].client = targets'[n].client
    /\ LET data == Snapshot(objects', cameras', targets'[n])
       IN  /\ targets'[n].last_data = data
           /\ IF sent'[1].method = "send"
              THEN TransmittedData(sent') = data
              ELSE TransmittedData(sent') = <<data[1]>>

C6_Step ==
    \A n \in Names :
        (last'.outcome = "started" /\ last'.name = n) => C6_Started(n)

C6_StartTransmitsOnce == [][C6_Step]_vars

\* a start has replaced a target registered under the name and has
\* transmitted the camera's snapshot
C6_Witness ==
    /\ last.outcome = "started" /\ last.had_target
    /\ Transmissions(sent, last.name) = 1
    /\ targets[last.name].last_data = Snapshot(objects, cameras, targets[last.name])

----------------------------------------------------------------------------
(* C7: replacement. After a start for a name, the registry holds under     *)
(* that name the target of this call: its client is the one made for the   *)
(* call's host and port, its prefix is the call's prefix without trailing  *)
(* separators, its look distance and bundling flag are the call's - also   *)
(* when a target with other parameters was registered under the name. In   *)
(* every state each registry key is its target's object_name, and a start  *)
(* changes the number of targets by one at most and only when the name was *)
(* not registered.                                                         *)
IsStripped(prefix, stripped) ==
    /\ Len(stripped) <= Len(prefix)
    /\ SubSeq(prefix, 1, Len(stripped)) = stripped
    /\ \A i \in (Len(stripped) + 1)..Len(prefix) : prefix[i] = "/"
    /\ stripped = <<>> \/ stripped[Len(stripped)] # "/"

CarriesSettings(target, settings) ==
    /\ target.client.host = settings.host
    /\ target.client.port = settings.port
    /\ IsStripped(settings.address_prefix, target.address_prefix)
    /\ target.look_distance = settings.look_distance
    /\ target.send_bundled = settings.send_bundled

C7_Step ==
    /\ \A n \in DOMAIN targets' : targets'[n].object_name = n
    /\ last'.outcome = "started" =>
          /\ last'.name \in DOMAIN targets'
          /\ CarriesSettings(targets'[last'.name], last'.settings)
          /\ DOMAIN targets' = DOMAIN targets \cup {last'.name}

C7_Replacement == [][C7_Step]_vars

\* a second start for a name has replaced the target registered under it,
\* while another target stays registered
C7_Witness ==
    /\ last.outcome = "started" /\ last.had_target
    /\ last.settings.host = "10.0.0.2"
    /\ targets[last.name].client.host = "10.0.0.2"
    /\ Cardinality(DOMAIN targets) = 2

----------------------------------------------------------------------------
(* C8: after stop for a name no transmission occurs for that name until    *)
(* start is called for it again. A stop (and teardown, for every name)     *)
(* leaves the name unregistered; a name that is not registered stays so    *)
(* through every operation but a start for it; and an operation that       *)
(* leaves a name unregistered calls no transport and runs no cycle for it. *)
CallsFor(calls, n) == {i \in 1..Len(calls) : calls[i].object_name = n}

C8_Step ==
    \A n \in Names :
        /\ (last'.outcome = "stopped" /\ last'.name = n) => n \notin DOMAIN targets'
        /\ last'.op = "unregister" => n \notin DOMAIN targets'
        /\ (n \notin DOMAIN targets /\ ~(last'.outcome = "started" /\ last'.name = n))
              => n \notin DOMAIN targets'
        /\ n \notin DOMAIN targets'
              => CallsFor(sent', n) = {} /\ CyclesFor(cycles', n) = 0

C8_NoTransmissionAfterStop == [][C8_Step]_vars

\* sync was stopped for a camera that is still in the scene, while another
\* target keeps the subscription alive; the events that follow send nothing for it
C8_Witness ==
    /\ last.outcome = "stopped" /\ last.had_target
    /\ last.name \notin DOMAIN targets
    /\ IsLiveCamera(objects, last.name)
    /\ DOMAIN targets # {} /\ Subscribed

----------------------------------------------------------------------------
(* C9: idempotent stop. A stop for a name that is not in the registry ends *)
(* normally and leaves the registry, every target's cache, the handler     *)
(* list and the flag as they were, and calls no transport.                 *)
C9_Step ==
    (last'.outcome = "stopped" /\ ~last'.had_target)
        => /\ last'.result = "FINISHED"
           /\ targets' = targets
           /\ _handler_registered' = _handler_registered
           /\ depsgraph_update_post' = depsgraph_update_post
           /\ sent' = <<>>

C9_IdempotentStop == [][C9_Step]_vars

\* stop was called for a name that is not registered while another target is
C9_Witness ==
    /\ last.outcome = "stopped" /\ ~last.had_target
    /\ DOMAIN targets # {} /\ Subscribed

\* stop was called with nothing registered at all
C9_WitnessEmpty ==
    /\ last.outcome = "stopped" /\ ~last.had_target
    /\ DOMAIN targets = {} /\ ~Subscribed

----------------------------------------------------------------------------
(* C10: a start attempt that fails before registration - no camera is      *)
(* selected, or no UDP client can be made for the host - is reported as    *)
(* an error, is cancelled, and leaves the registry, the subscription and   *)
(* every camera's active flag as they were; it sends nothing.              *)
C10_Step ==
    (last'.op = "execute" /\ last'.outcome \in {"no_camera", "client_error"})
        => /\ last'.report = "ERROR" /\ last'.result = "CANCELLED"
           /\ targets' = targets
           /\ _handler_registered' = _handler_registered
           /\ depsgraph_update_post' = depsgraph_update_post
           /\ cameras' = cameras
           /\ sent' = <<>> /\ cycles' = <<>>

\* an attempt with a host no client can be made for never ends as a start
C10_BadHostNeverStarts ==
    (last'.op = "execute" /\ last'.outcome = "started")
        => last'.settings.host \in ValidHosts

C10_FailedStart == [][C10_Step /\ C10_BadHostNeverStarts]_vars

\* a start failed for its host with nothing registered: the registry is still empty
C10_Witness ==
    /\ last.outcome = "client_error"
    /\ last.settings.host \notin ValidHosts
    /\ DOMAIN targets = {} /\ ~Subscribed
    /\ \A c \in Cams : ~cameras[c].active

\* a start failed for want of a camera while a target was registered
C10_WitnessNoCamera ==
    /\ last.outcome = "no_camera"
    /\ DOMAIN targets # {} /\ Subscribed

----------------------------------------------------------------------------
(* C11: a failure of the transport during a transmission stays inside the  *)
(* cycle. The operation ends as it would have: a start ends as a start     *)
(* (reported as INFO, FINISHED, the flag set) with its target registered   *)
(* and the callback subscribed, an event leaves the registry's names, the  *)
(* flag and the handler list as they were. After a call that failed the    *)
(* operation calls the transport no more for that target. And in every     *)
(* state, whichever call fails, the callback runs the same cycles for an   *)
(* event's changes as when none fails.                                     *)
NoCallAfterFailure(calls) ==
    \A i \in 1..Len(calls) :
        ~calls[i].ok
            => \A j \in (i + 1)..Len(calls) : calls[j].object_name # calls[i].object_name

C11_Step ==
    SomeCallFailed(sent')
        => /\ NoCallAfterFailure(sent')
           /\ \/ /\ last'.op = "execute" /\ last'.outcome = "started"
                 /\ last'.report = "INFO" /\ last'.result = "FINISHED"
                 /\ cameras'[objects[last'.name].data].active
                 /\ DOMAIN targets' = DOMAIN targets \cup {last'.name}
                 /\ _handler_registered' /\ Subscribed'
                 /\ Len(sent') <= 5
              \/ /\ last'.op = "depsgraph_update"
                 /\ DOMAIN targets' = DOMAIN targets
                 /\ _handler_registered' = _handler_registered
                 /\ depsgraph_update_post' = depsgraph_update_post

C11_SameCycles ==
    SomethingToSend
        => \A updates \in UpdateLists :
               LET ran == _depsgraph_callback(Syncer, updates, NoFailure).cycles
               IN  \A plan \in FailPlans \ {NoFailure} :
                       _depsgraph_callback(Syncer, updates, plan).cycles = ran

C11_FailureStaysInCycle == []C11_SameCycles /\ [][C11_Step]_vars

\* in one event a transmission failed and the next change's cycle then
\* transmitted for another target
C11_Witness ==
    /\ last.op = "depsgraph_update"
    /\ DOMAIN targets # {} /\ Subscribed
    /\ \E i \in 1..Len(sent) :
          /\ ~sent[i].ok
          /\ \E j \in (i + 1)..Len(sent) :
                sent[j].object_name # sent[i].object_name /\ sent[j].ok

\* a start's first transmission failed part-way: the start stands
C11_WitnessStart ==
    /\ last.outcome = "started"
    /\ Len(sent) = 3 /\ ~sent[3].ok
    /\ last.name \in DOMAIN targets
    /\ cameras[objects[last.name].data].active

----------------------------------------------------------------------------
(* C12: stale target. In every state, a cycle for a target whose object is *)
(* gone or is no camera calls no transport and leaves the registry, the    *)
(* flag and the handler list as they are, whatever the network does; an    *)
(* event that finds a target stale leaves it registered with its cache     *)
(* and calls no transport for it. The step that brings the object back as  *)
(* a camera under the name leaves the target as it is, and in every state  *)
(* a change of a registered live camera makes the callback transmit for    *)
(* its target exactly if the snapshot differs from the cache; any later    *)
(* event whose cycle finds them different transmits once.                  *)
Stale(n) == n \in DOMAIN targets /\ ~IsLiveCamera(objects, n)

\* the transmissions for n when the callback is given a change of object n
AfterChangeOf(n) ==
    Transmissions(_depsgraph_callback(Syncer, <<[kind |-> "Object", id |-> n]>>,
                                      NoFailure).sent, n)

C12_StaleCycle ==
    \A n \in Names, plan \in FailPlans :
        Stale(n) => _send_camera_data(Syncer, n, plan) = [Syncer EXCEPT !.cycles = <<n>>]

C12_Resumes ==
    \A n \in DOMAIN targets :
        IsLiveCamera(objects, n)
            => AfterChangeOf(n) =
                   IF targets[n].last_data = Snapshot(objects, cameras, targets[n])
                   THEN 0 ELSE 1

C12_Step ==
    \A n \in Names :
        /\ (Stale(n) /\ last'.op = "depsgraph_update")
              => /\ n \in DOMAIN targets' /\ targets'[n] = targets[n]
                 /\ CallsFor(sent', n) = {}
                 /\ _handler_registered' = _handler_registered
                 /\ depsgraph_update_post' = depsgraph_update_post
        /\ (Stale(n) /\ IsLiveCamera(objects', n))
              => /\ n \in DOMAIN targets' /\ targets'[n] = targets[n]
        /\ (/\ last'.op = "depsgraph_update"
            /\ n \in DOMAIN targets /\ IsLiveCamera(objects, n)
            /\ CyclesFor(cycles', n) > 0
            /\ targets[n].last_data # Snapshot(objects, cameras, targets[n]))
              => Transmissions(sent', n) = 1

C12_StaleTarget == [](C12_StaleCycle /\ C12_Resumes) /\ [][C12_Step]_vars

\* an event has come while a target that had transmitted was stale: the
\* target is still registered, with its cache, and nothing was sent for it
C12_Witness ==
    /\ last.op = "depsgraph_update"
    /\ \E n \in Names :
          /\ Stale(n)
          /\ targets[n].last_data # NoData
          /\ CallsFor(sent, n) = {}
    /\ Subscribed

----------------------------------------------------------------------------
(* C13: an event all of whose changes refer to something untracked - an    *)
(* object that is no camera, a camera without a target, camera data no     *)
(* tracked camera uses, another kind of data - runs no cycle, calls no     *)
(* transport and leaves every target as it is. In every state with a       *)
(* target, for every such event the handlers could be called with, also    *)
(* while a target's snapshot has changed and waits to be sent.             *)
Untracked(update) == \A n \in DOMAIN targets : ~RefersTo(update, n)

Events == UNION {[1..k -> Updates] : k \in 1..MaxUpdates}

C13_UnrelatedEvent ==
    DOMAIN targets # {}
        => \A updates \in Events, plan \in FailPlans :
               (\A i \in 1..Len(updates) : Untracked(updates[i]))
                   => LET s == run_handlers(Syncer, depsgraph_update_post, updates, plan)
                      IN  /\ s.sent = <<>>
                          /\ s.cycles = <<>>
                          /\ s.targets = targets

\* an event has come that ran no cycle and sent nothing, although a tracked
\* camera's snapshot differs from its target's cache and another camera,
\* which has no target, is in the scene
C13_Witness ==
    /\ last.op = "depsgraph_update"
    /\ sent = <<>> /\ cycles = <<>>
    /\ SomethingToSend
    /\ \E n \in Names : IsLiveCamera(objects, n) /\ n \notin DOMAIN targets

----------------------------------------------------------------------------
(* C14: when an operation runs a cycle for a registered live camera whose  *)
(* snapshot differs from the target's cache (a new target has none), it    *)
(* makes exactly one transmission for it, every call of which carries its  *)
(* part of the fresh snapshot to the target's client, and the cache is the *)
(* fresh snapshot afterwards. When the camera was moved since the cache    *)
(* was set and its lens and clipping are as they were, the one bundle      *)
(* carries the new position and center and the cache's fov, near and far.  *)
Min(S) == CHOOSE i \in S : \A j \in S : i <= j

\* the calls for n are made one after the other and each carries, in the
\* order of Messages, its part of `data` under the target's prefix
CarriesSnapshot(calls, target, data) ==
    LET I    == CallsFor(calls, target.object_name)
        msgs == Messages(target.address_prefix, data)
    IN  /\ I # {}
        /\ \A i \in I :
              /\ calls[i].client = target.client
              /\ IF target.send_bundled
                 THEN calls[i].method = "send" /\ calls[i].content = msgs
                 ELSE /\ calls[i].method = "send_message"
                      /\ i - Min(I) + 1 \in 1..5
                      /\ calls[i].content = <<msgs[i - Min(I) + 1]>>
        /\ \A i \in Min(I)..(Min(I) + Cardinality(I) - 1) : i \in I

\* the cache a cycle of this step found for n
CacheBefore(n) ==
    IF last'.op = "depsgraph_update" /\ n \in DOMAIN targets
    THEN targets[n].last_data ELSE NoData

C14_Step ==
    \A n \in Names :
        LET data == Snapshot(objects', cameras', targets'[n])
            old  == CacheBefore(n)
        IN  (/\ CyclesFor(cycles', n) > 0
             /\ n \in DOMAIN targets' /\ IsLiveCamera(objects', n)
             /\ old # data)
                => /\ Transmissions(sent', n) = 1
                   /\ CarriesSnapshot(sent', targets'[n], data)
                   /\ targets'[n].last_data = data
                   /\ (/\ old # NoData
                       /\ old[1] # data[1]
                       /\ <<old[3], old[4], old[5]>> = <<data[3], data[4], data[5]>>
                       /\ targets'[n].send_bundled)
                         => LET call == sent'[Min(CallsFor(sent', n))]
                            IN  /\ call.content[1].args = data[1]
                                /\ call.content[2].args = data[2]
                                /\ call.content[3].args = <<old[3]>>
                                /\ call.content[4].args = <<old[4]>>
                                /\ call.content[5].args = <<old[5]>>

C14_DifferingSnapshotTransmits == [][C14_Step]_vars

\* an event has made one transmission, which went through, for a camera
\* that was moved to (4, 5, 6): the cache is the new snapshot
C14_Witness ==
    /\ last.op = "depsgraph_update"
    /\ \E n \in DOMAIN targets :
          /\ IsLiveCamera(objects, n)
          /\ Transmissions(sent, n) = 1
          /\ ~FailedFor(sent, n)
          /\ targets[n].last_data = Snapshot(objects, cameras, targets[n])
          /\ targets[n].last_data[1] = blender_to_ossia_coords(Vec(4, 5, 6))

----------------------------------------------------------------------------
(* C15: the shape of a transmission. As the claim has it: an operation     *)
(* that transmits for a target makes, in bundled mode, one call of send    *)
(* with one container of the five messages position, center, fov, near,    *)
(* far in this order, and in unbundled mode five calls of send_message     *)
(* with these five messages in this order; the addresses begin with the    *)
(* target's prefix, which ends in no separator.                            *)
Parameters == <<"position", "center", "fov", "near", "far">>

\* the i-th message of a transmission of `data` for the target
Expected(target, data, i) ==
    [address |-> target.address_prefix \o <<"/", Parameters[i]>>,
     args    |-> IF i <= 2 THEN data[i] ELSE <<data[i]>>]

\* the calls for the target begin a transmission of its cache in the claim's
\* shape; in unbundled mode the calls are the first `count` of the five
ShapedTransmission(calls, target, count) ==
    LET I    == CallsFor(calls, target.object_name)
        data == target.last_data
    IN  /\ target.address_prefix = <<>>
             \/ target.address_prefix[Len(target.address_prefix)] # "/"
        /\ \A i \in I : calls[i].client = target.client
        /\ IF target.send_bundled
           THEN /\ Cardinality(I) = 1
                /\ \A i \in I :
                      /\ calls[i].method = "send"
                      /\ calls[i].content = [k \in 1..5 |-> Expected(target, data, k)]
           ELSE /\ I = Min(I)..(Min(I) + count - 1)
                /\ \A i \in I :
                      /\ calls[i].method = "send_message"
                      /\ calls[i].content = <<Expected(target, data, i - Min(I) + 1)>>

C15_OriginalStep ==
    \A n \in DOMAIN targets' :
        Transmissions(sent', n) >= 1 => ShapedTransmission(sent', targets'[n], 5)

C15_FiveMessagesAlways == [][C15_OriginalStep]_vars

(* C15 as amended: in unbundled mode the calls are the five in order when   *)
(* no call fails; a call that fails is the last of its transmission, so a  *)
(* transmission that fails consists of the first one to five of them, all  *)
(* but the last of which went through. A start's target has the prefix of  *)
(* the settings with its trailing separators stripped.                     *)
C15_Step ==
    /\ \A n \in DOMAIN targets' :
          Transmissions(sent', n) >= 1
              => LET I == CallsFor(sent', n)
                     count == Cardinality(I)
                 IN  /\ ShapedTransmission(sent', targets'[n], count)
                     /\ count \in 1..5
                     /\ \A i \in I : ~sent'[i].ok => \A j \in I : j <= i
                     /\ ~FailedFor(sent', n)
                           => count = IF targets'[n].send_bundled THEN 1 ELSE 5
    /\ last'.outcome = "started"
          => IsStripped(last'.settings.address_prefix, targets'[last'.name].address_prefix)

C15_TransmissionShape == [][C15_Step]_vars

\* a start with the prefix /cam// and unbundled sending has made five calls
\* that went through, the last to /cam/far
C15_Witness ==
    /\ last.outcome = "started"
    /\ last.settings.address_prefix = <<"/", "cam", "/", "/">>
    /\ Len(sent) = 5
    /\ ~SomeCallFailed(sent)
    /\ sent[5].content[1].address = <<"/", "cam", "/", "far">>

\* an unbundled transmission inside an event ended with its third call, which failed
C15_WitnessCutShort ==
    /\ last.op = "depsgraph_update"
    /\ \E n \in DOMAIN targets :
          /\ ~targets[n].send_bundled
          /\ Cardinality(CallsFor(sent, n)) = 3
          /\ FailedFor(sent, n)

----------------------------------------------------------------------------
(* C16: for every vector (x, y, z) of the cube, one conversion gives       *)
(* (x, z, -y) and four conversions give the vector back; two conversions   *)
(* give (x, -y, -z), which is the vector itself only when y = z = 0, so    *)
(* the conversion is not an involution.                                    *)
C16_Remap ==
    LET v == conv.from
    IN  /\ conv.n = 1 => conv.to = <<v[1], v[3], -v[2]>>
        /\ conv.n = 2 => /\ conv.to = <<v[1], -v[2], -v[3]>>
                         /\ conv.to = v <=> (v[2] = 0 /\ v[3] = 0)
        /\ conv.n = 4 => conv.to = v
        /\ conv.n = 5 => conv.to = <<v[1], v[3], -v[2]>>

\* four conversions have brought (1, 2, -2) back
C16_Witness ==
    /\ conv.n = 4
    /\ conv.from = Vec(1, 2, -2)
    /\ conv.to = conv.from

\* two conversions have turned (1, 2, -2) into another vector
C16_WitnessNoInvolution ==
    /\ conv.n = 2
    /\ conv.from = Vec(1, 2, -2)
    /\ conv.to # conv.from

----------------------------------------------------------------------------
(* C17: the snapshot comes from the camera's world transform. After an     *)
(* operation that ran a cycle for a registered live camera, the snapshot   *)
(* the cycle took (the target's cache) has as position the conversion of   *)
(* the object's world position and as center the conversion of world       *)
(* position + forward * look_distance, and the position the operation      *)
(* transmitted is that position - also for a camera whose parent moves it  *)
(* away from its own location.                                             *)
WorldPosition(obj) == VecAdd(obj.pose.location, obj.pose.parent_offset)

C17_WorldTransform ==
    \A n \in DOMAIN targets :
        (IsLiveCamera(objects, n) /\ CyclesFor(cycles, n) > 0)
            => LET world == WorldPosition(objects[n])
                   position == blender_to_ossia_coords(world)
                   center == blender_to_ossia_coords(
                                 VecAdd(world, VecScale(objects[n].pose.forward,
                                                        targets[n].look_distance)))
               IN  /\ targets[n].last_data[1] = position
                   /\ targets[n].last_data[2] = center
                   /\ Transmissions(sent, n) >= 1
                         => sent[Min(CallsFor(sent, n))].content[1].args = position

----------------------------------------------------------------------------
(* C18: the cache is the last transmitted snapshot. A new target has no    *)
(* cache; an operation that completes a transmission for a target (every   *)
(* call went through: the bundle, or all five messages) leaves the cache   *)
(* equal to the snapshot it carried; every other operation - one that      *)
(* runs no cycle for the target, whose cycle sends nothing, or whose       *)
(* transmission fails or fails part-way - leaves the cache as it was (for  *)
(* a target registered by this operation: absent).                         *)
Completed(calls, target) ==
    /\ Transmissions(calls, target.object_name) >= 1
    /\ ~FailedFor(calls, target.object_name)
    /\ Cardinality(CallsFor(calls, target.object_name))
          = IF target.send_bundled THEN 1 ELSE 5

C18_Step ==
    \A n \in DOMAIN targets' :
        LET before == IF n \in DOMAIN targets /\ ~(last'.outcome = "started" /\ last'.name = n)
                      THEN targets[n].last_data
                      ELSE NoData
        IN  IF Completed(sent', targets'[n])
            THEN /\ targets'[n].last_data = Snapshot(objects', cameras', targets'[n])
                 /\ CarriesSnapshot(sent', targets'[n], targets'[n].last_data)
            ELSE targets'[n].last_data = before

C18_CacheIsLastTransmitted == [][C18_Step]_vars

----------------------------------------------------------------------------
(* C19: in every state reached by starts, stops, events and teardown the   *)
(* callback is in Blender's handler list at most once and the flag         *)
(* _handler_registered is true exactly when it is there; so an event runs  *)
(* the callback at most once: no more cycles than the event has changes.   *)
Occurrences(list, x) == Cardinality({k \in 1..Len(list) : list[k] = x})

C19_Inv ==
    /\ Occurrences(depsgraph_update_post, Callback) <= 1
    /\ _handler_registered <=> Occurrences(depsgraph_update_post, Callback) = 1

C19_Step ==
    last'.op = "depsgraph_update" => Len(cycles') <= MaxUpdates

C19_SubscribedOnce == []C19_Inv /\ [][C19_Step]_vars

\* a start has been made while the callback was subscribed, for a name that
\* had a target: the callback is in the list once
C19_Witness ==
    /\ last.outcome = "started" /\ last.had_target
    /\ depsgraph_update_post = <<Callback>>
    /\ _handler_registered

\* with the callback subscribed once, an event has run a cycle for each of
\* its changes
C19_WitnessEvent ==
    /\ last.op = "depsgraph_update"
    /\ Len(cycles) = MaxUpdates
    /\ depsgraph_update_post = <<Callback>>

----------------------------------------------------------------------------
(* C20: per-target isolation. A start or a stop for object A leaves every  *)
(* other name as it was in the registry - there or not, and if there with  *)
(* the same client, prefix, look distance, bundling flag and cache - and   *)
(* makes no call and runs no cycle for it. In every state a cycle for A,   *)
(* whatever the network does, leaves every other entry as it is and calls  *)
(* no transport for it. An event changes of an entry nothing but the       *)
(* cache, leaves the entries it runs no cycle for as they are, calling no  *)
(* transport for them, and when a transmission for A fails in it, a cycle  *)
(* it runs for B still transmits for B exactly if B's snapshot differs     *)
(* from B's cache and leaves B's cache equal to B's snapshot.              *)
SameEntry(B) ==
    /\ B \in DOMAIN targets <=> B \in DOMAIN targets'
    /\ B \in DOMAIN targets => targets'[B] = targets[B]

C20_Cycle ==
    \A A \in DOMAIN targets, plan \in FailPlans :
        LET s == _send_camera_data(Syncer, A, plan)
        IN  /\ DOMAIN s.targets = DOMAIN targets
            /\ \A B \in DOMAIN targets \ {A} :
                  s.targets[B] = targets[B] /\ CallsFor(s.sent, B) = {}

C20_Step ==
    /\ (last'.op = "execute" /\ last'.name # None)
          => \A B \in Names \ {last'.name} :
                 /\ SameEntry(B)
                 /\ CallsFor(sent', B) = {} /\ CyclesFor(cycles', B) = 0
    /\ last'.op = "depsgraph_update"
          => \A B \in Names :
                 /\ B \in DOMAIN targets <=> B \in DOMAIN targets'
                 /\ B \in DOMAIN targets
                       => [targets'[B] EXCEPT !.last_data = targets[B].last_data] = targets[B]
                 /\ CyclesFor(cycles', B) = 0
                       => SameEntry(B) /\ CallsFor(sent', B) = {}
                 /\ (/\ CyclesFor(cycles', B) > 0 /\ IsLiveCamera(objects, B)
                     /\ \E A \in Names \ {B} : FailedFor(sent', A))
                       => /\ Transmissions(sent', B) =
                                IF targets[B].last_data = Snapshot(objects, cameras, targets[B])
                                THEN 0 ELSE 1
                          /\ targets'[B].last_data = Snapshot(objects, cameras, targets[B])

C20_Isolation == []C20_Cycle /\ [][C20_Step]_vars

\* in an event a transmission for one target failed while another target,
\* whose camera had changed too, got no cycle: its entry waits as it was
C20_Witness ==
    /\ last.op = "depsgraph_update"
    /\ \E A \in DOMAIN targets, B \in DOMAIN targets :
          /\ A # B
          /\ FailedFor(sent, A)
          /\ CyclesFor(cycles, B) = 0 /\ CallsFor(sent, B) = {}
          /\ IsLiveCamera(objects, B)
          /\ targets[B].last_data # NoData
          /\ targets[B].last_data # Snapshot(objects, cameras, targets[B])

\* a stop for one camera has left the other camera's target registered
C20_WitnessStop ==
    /\ last.outcome = "stopped" /\ last.had_target
    /\ \E B \in DOMAIN targets : B # last.name /\ targets[B].last_data # NoData

====
